---- MODULE Spec2Model ----
(***************************************************************************)
(* Model of Dashboardv5.py: a Streamlit page that fetches OHLCV data for   *)
(* the selected tickers through a time-bounded memo cache and renders one  *)
(* candlestick chart per ticker in a three-column grid, with an optional   *)
(* SMA overlay and support/resistance levels found by local extrema.       *)
(*                                                                         *)
(* Prices are positive integers; NaN is the value below every price.  A    *)
(* mean is kept exactly, as the pair <<sum, count>>, so float rounding is  *)
(* outside the model.  A DataFrame is a record [multi, col]: col maps a    *)
(* column label (<<field, ticker>> under a MultiIndex, field otherwise)    *)
(* to its series, all series of one frame having the same length.         *)
(***************************************************************************)
EXTENDS Integers, Sequences, FiniteSets, TLC

VARIABLES sidebar, cache, now, queries, out, call

vars == <<sidebar, cache, now, queries, out, call>>

(***************************************************************************)
(* Program constants.                                                      *)
(***************************************************************************)
CHART_COLUMNS == 3
MAX_SELECTIONS == 9
TTL == 3600
DEFAULT_SR_WINDOW == 20
DEFAULT_SR_NUM_LEVELS == 3
DEFAULT_SMA_PERIOD == 20
SMA_MIN_PERIOD == 10
SR_MIN_WINDOW == 5
SR_MIN_NUM_LEVELS == 1

(***************************************************************************)
(* Bounds of the model.                                                    *)
(***************************************************************************)
NumTickers == 2      \* how many entries of DEFAULT_TICKERS the widget offers
MaxDate == 2         \* calendar days are 1..MaxDate
MaxTicks == 2        \* the clock advances at most this many half-TTL steps
MaxQueries == 2      \* successful provider queries in one session
MaxLen == 5          \* longest close series given to the functions
MaxPrice == 3        \* closes are drawn from 1..MaxPrice
MaxWindow == 2       \* S/R windows are drawn from 1..MaxWindow
MaxLevels == 2       \* num_levels is drawn from 0..MaxLevels
MaxPeriod == 3       \* SMA periods are drawn from 1..MaxPeriod

NaN == 0 - 1

AllTickers ==
    <<"AAPL", "MSFT", "GOOGL", "AMZN", "TSLA", "NVDA", "JPM", "V", "SPY", "QQQ">>

Min(a, b) == IF a < b THEN a ELSE b

DEFAULT_TICKERS == SubSeq(AllTickers, 1, Min(NumTickers, Len(AllTickers)))

Fields == {"Open", "High", "Low", "Close", "Volume"}

OHLC == {"Open", "High", "Low", "Close"}

(***************************************************************************)
(* Sequences and sorting.                                                  *)
(***************************************************************************)
Range(s) == {s[i] : i \in 1..Len(s)}

SeqsUpTo(S, n) == UNION {[1..k -> S] : k \in 0..n}

RECURSIVE SortedAsc(_)
SortedAsc(S) ==
    IF S = {} THEN <<>>
    ELSE LET m == CHOOSE x \in S : \A y \in S : x <= y
         IN  <<m>> \o SortedAsc(S \ {m})

RECURSIVE SortedDesc(_)
SortedDesc(S) ==
    IF S = {} THEN <<>>
    ELSE LET m == CHOOSE x \in S : \A y \in S : x >= y
         IN  <<m>> \o SortedDesc(S \ {m})

\* s[:n] for n >= 0
Take(s, n) == SubSeq(s, 1, Min(n, Len(s)))

(***************************************************************************)
(* DataFrames.                                                             *)
(***************************************************************************)
EmptyFrame == [multi |-> FALSE, col |-> <<>>]

Rows(df) ==
    IF DOMAIN df.col = {} THEN 0
    ELSE Len(df.col[CHOOSE k \in DOMAIN df.col : TRUE])

IsEmpty(df) == DOMAIN df.col = {} \/ Rows(df) = 0

\* DataFrame.dropna(): keep the rows in which no column holds NaN.
RECURSIVE KeepRows(_, _, _)
KeepRows(s, keep, i) ==
    IF i > Len(s) THEN <<>>
    ELSE (IF i \in keep THEN <<s[i]>> ELSE <<>>) \o KeepRows(s, keep, i + 1)

dropna(df) ==
    LET keep == {i \in 1..Rows(df) : \A k \in DOMAIN df.col : df.col[k][i] # NaN}
    IN  [multi |-> df.multi,
         col |-> [k \in DOMAIN df.col |-> KeepRows(df.col[k], keep, 1)]]

\* ('Close', ticker) in df.columns
HasCloseOf(df, ticker) == df.multi /\ <<"Close", ticker>> \in DOMAIN df.col

\* ticker in df.columns: a first-level label under a MultiIndex
HasLabel(df, ticker) ==
    IF df.multi THEN \E k \in DOMAIN df.col : k[1] = ticker
    ELSE ticker \in DOMAIN df.col

(***************************************************************************)
(* scipy.signal.argrelextrema(prices, comparator, order=window), in its    *)
(* default mode 'clip': a neighbour index outside the series is replaced   *)
(* by the nearest end of the series.  Positions are 1-based here.          *)
(***************************************************************************)
\* numpy's mode 'wrap' in place of 'clip'
Clip_Wrap(i, n) == ((i - 1) % n) + 1

Clip(i, n) == IF i < 1 THEN 1 ELSE IF i > n THEN n ELSE i

\* a comparator that accepts equal neighbours
Greater_OrEqual(x, y) == x >= y

Greater(x, y) == x > y

Less(x, y) == x < y

\* the lambda handed over as comparator: Greater for maxima, Less for minima
comparator(maxima, x, y) == IF maxima THEN Greater(x, y) ELSE Less(x, y)

argrelextrema(prices, maxima, order) ==
    {i \in 1..Len(prices) :
        \A shift \in 1..order :
            /\ comparator(maxima, prices[i], prices[Clip(i + shift, Len(prices))])
            /\ comparator(maxima, prices[i], prices[Clip(i - shift, Len(prices))])}

\* argrelextrema raises ValueError('Order must be an int >= 1')
OrderRejected(order) == order < 1

SupportOf(prices, window, num_levels) ==
    Take(SortedAsc({prices[i] : i \in argrelextrema(prices, FALSE, window)}),
         num_levels)

\* sorted() without reverse=True
ResistanceOf_Unreversed(prices, window, num_levels) ==
    Take(SortedAsc({prices[i] : i \in argrelextrema(prices, TRUE, window)}),
         num_levels)

ResistanceOf(prices, window, num_levels) ==
    Take(SortedDesc({prices[i] : i \in argrelextrema(prices, TRUE, window)}),
         num_levels)

\* df has plain (single-level) column labels here.
find_support_resistance(df, window, num_levels) ==
    IF IsEmpty(df) \/ "Close" \notin DOMAIN df.col
    THEN [status |-> "ok", support |-> <<>>, resistance |-> <<>>]
    ELSE IF OrderRejected(window)
    THEN [status |-> "ValueError", support |-> <<>>, resistance |-> <<>>]
    ELSE [status |-> "ok",
          support |-> SupportOf(df.col["Close"], window, num_levels),
          resistance |-> ResistanceOf(df.col["Close"], window, num_levels)]

(***************************************************************************)
(* Series.rolling(window=period).mean(): min_periods defaults to the       *)
(* window; the window slides by adding the entering value and removing     *)
(* the leaving one.                                                        *)
(***************************************************************************)
RECURSIVE RollState(_, _, _)
RollState(closes, period, i) ==
    IF i = 0 THEN [sum_x |-> 0, nobs |-> 0]
    ELSE LET before == RollState(closes, period, i - 1)
             added == [sum_x |-> before.sum_x + closes[i], nobs |-> before.nobs + 1]
         IN  IF i > period
             THEN [sum_x |-> added.sum_x - closes[i - period], nobs |-> added.nobs - 1]
             ELSE added

\* rolling(window=period, min_periods=1)
RollingMean_MinPeriodsOne(closes, period) ==
    [i \in 1..Len(closes) |->
        LET st == RollState(closes, period, i)
        IN  IF st.nobs >= 1 THEN <<st.sum_x, st.nobs>> ELSE <<>>]

RollingMean(closes, period) ==
    [i \in 1..Len(closes) |->
        LET st == RollState(closes, period, i)
        IN  IF st.nobs >= period /\ st.nobs > 0 THEN <<st.sum_x, st.nobs>> ELSE <<>>]

(***************************************************************************)
(* plot_candlestick: what one grid cell shows, or the exception that       *)
(* leaves the function.  KeyError is caught and shown as a warning.        *)
(***************************************************************************)
\* df.loc[:, (slice(None), ticker)] followed by columns.droplevel(1)
SliceTicker(df, ticker) ==
    [multi |-> FALSE,
     col |-> [f \in {k[1] : k \in {c \in DOMAIN df.col : c[2] = ticker}}
                |-> df.col[<<f, ticker>>]]]

SliceRaisesKeyError(df, ticker) == \A c \in DOMAIN df.col : c[2] # ticker

Chart(plot_data, levels, show_sma, sma_period) ==
    [kind |-> "chart",
     candles |-> Rows(plot_data),
     has_sma |-> show_sma,
     sma |-> IF show_sma THEN RollingMean(plot_data.col["Close"], sma_period)
             ELSE <<>>,
     support |-> levels.support,
     resistance |-> levels.resistance]

Warning(which) ==
    [kind |-> which, candles |-> 0, has_sma |-> FALSE, sma |-> <<>>,
     support |-> <<>>, resistance |-> <<>>]

plot_candlestick(df, ticker, sr_window, sr_num_levels, show_sma, sma_period) ==
    IF df.multi /\ SliceRaisesKeyError(df, ticker)
    THEN Warning("warning_missing_ohlc")
    ELSE LET plot_data == IF df.multi THEN SliceTicker(df, ticker) ELSE df
         IN  IF ~(OHLC \subseteq DOMAIN plot_data.col)
             THEN Warning("warning_missing_ohlc")
             ELSE LET levels ==
                          find_support_resistance(plot_data, sr_window, sr_num_levels)
                  IN  IF levels.status = "ValueError"
                      THEN Warning("ValueError")
                      ELSE Chart(plot_data, levels, show_sma, sma_period)

(***************************************************************************)
(* The sidebar: the values the widgets hand to the script.                 *)
(***************************************************************************)
today == MaxDate

Dates == 1..today

SmaPeriods == {SMA_MIN_PERIOD, DEFAULT_SMA_PERIOD}

SrWindows == {SR_MIN_WINDOW, DEFAULT_SR_WINDOW}

SrNumLevels == {SR_MIN_NUM_LEVELS, DEFAULT_SR_NUM_LEVELS}

DefaultSidebar ==
    [selected_tickers |-> Take(DEFAULT_TICKERS, 3),
     start_date |-> 1,
     end_date |-> today,
     show_sma |-> FALSE,
     sma_period |-> DEFAULT_SMA_PERIOD,
     sr_enabled |-> TRUE,
     sr_window |-> DEFAULT_SR_WINDOW,
     sr_num_levels |-> DEFAULT_SR_NUM_LEVELS]

(***************************************************************************)
(* The provider (yf.download): it fails, or answers with a frame that has  *)
(* a MultiIndex (field, ticker) and may lack columns or hold NaN.          *)
(***************************************************************************)
MarketSeries == <<2, 4, 1, 3, 2>>

MarketFrame(tickers, missing, holes, blank) ==
    [multi |-> TRUE,
     col |-> [k \in (Fields \X Range(tickers)) \ missing |->
                [i \in 1..Len(MarketSeries) |->
                    IF k[2] \in blank \/ (k \in holes /\ i = 2)
                    THEN NaN ELSE MarketSeries[i]]]]

Last(s) == s[Len(s)]

ProviderFrames(tickers) ==
    { MarketFrame(tickers, {}, {}, {}),
      MarketFrame(tickers, Fields \X {Last(tickers)}, {}, {}),
      MarketFrame(tickers, {<<"Open", Last(tickers)>>}, {<<"Close", tickers[1]>>}, {}),
      MarketFrame(tickers, {}, {}, {Last(tickers)}) }

ProviderOutcomes(tickers) ==
    {[ok |-> FALSE, frame |-> EmptyFrame]}
        \cup {[ok |-> TRUE, frame |-> f] : f \in ProviderFrames(tickers)}

NoOutcome == [ok |-> FALSE, frame |-> EmptyFrame]

(***************************************************************************)
(* get_stock_data behind st.cache_data(ttl=3600): the memo is keyed by     *)
(* the arguments as passed; an entry answers while it is younger than the  *)
(* TTL; a call that raises stores nothing.                                 *)
(***************************************************************************)
CacheKey(tickers, start_date, end_date) == <<tickers, start_date, end_date>>

\* an entry that still answers at the instant its TTL has elapsed
Fresh_Inclusive(entry, t) == t <= entry.at + TTL

Fresh(entry, t) == t < entry.at + TTL

CacheHit(c, key, t) == key \in DOMAIN c /\ Fresh(c[key], t)

CacheStore(c, key, value, t) ==
    LET kept == {k \in DOMAIN c : Fresh(c[k], t)} \cup {key}
    IN  [k \in kept |-> IF k = key THEN [value |-> value, at |-> t] ELSE c[k]]

\* the function body, run on a miss; outcome is what yf.download does
get_stock_data_body(tickers, outcome) ==
    IF tickers = <<>> THEN [raised |-> FALSE, queried |-> FALSE, data |-> EmptyFrame]
    ELSE IF ~outcome.ok THEN [raised |-> TRUE, queried |-> TRUE, data |-> EmptyFrame]
    ELSE [raised |-> FALSE, queried |-> TRUE, data |-> dropna(outcome.frame)]

get_stock_data(c, t, tickers, start_date, end_date, outcome) ==
    LET key == CacheKey(tickers, start_date, end_date)
    IN  IF CacheHit(c, key, t)
        THEN [raised |-> FALSE, queried |-> FALSE, data |-> c[key].value, cache |-> c]
        ELSE LET r == get_stock_data_body(tickers, outcome)
             IN  [raised |-> r.raised, queried |-> r.queried, data |-> r.data,
                  cache |-> IF r.raised THEN c ELSE CacheStore(c, key, r.data, t)]

(***************************************************************************)
(* The grid loop: one cell per selected ticker, in order, until a call     *)
(* raises an exception nothing catches, which ends the script run.         *)
(***************************************************************************)
CellContent(data, sb, ticker) ==
    IF HasCloseOf(data, ticker) \/ HasLabel(data, ticker)
    THEN plot_candlestick(data, ticker,
                          IF sb.sr_enabled THEN sb.sr_window ELSE 0,
                          IF sb.sr_enabled THEN sb.sr_num_levels ELSE 0,
                          sb.show_sma, sb.sma_period)
    ELSE Warning("warning_not_available")

Cell(data, sb, p) ==
    [column |-> (p - 1) % CHART_COLUMNS,
     ticker |-> sb.selected_tickers[p],
     content |-> CellContent(data, sb, sb.selected_tickers[p])]

RECURSIVE GridFrom(_, _, _)
GridFrom(data, sb, p) ==
    IF p > Len(sb.selected_tickers) THEN <<>>
    ELSE LET cell == Cell(data, sb, p)
         IN  IF cell.content.kind = "ValueError" THEN <<cell>>
             ELSE <<cell>> \o GridFrom(data, sb, p + 1)

Crashed(grid) == \E p \in 1..Len(grid) : grid[p].content.kind = "ValueError"

(***************************************************************************)
(* One run of the script's main content, from the sidebar values, the      *)
(* memo, the clock and what the provider would answer.                     *)
(***************************************************************************)
NotRun ==
    [ran |-> FALSE, at |-> 0, messages |-> <<>>, grid |-> <<>>, fetch_calls |-> 0,
     provider_calls |-> 0, fetch_raised |-> FALSE, data |-> EmptyFrame,
     crashed |-> FALSE]

AfterFetch(sb, t, fetched) ==
    LET data == fetched.data
        said == IF fetched.raised THEN <<"error_fetch">> ELSE <<>>
        grid == IF ~IsEmpty(data) THEN GridFrom(data, sb, 1) ELSE <<>>
    IN  [ran |-> TRUE,
         at |-> t,
         messages |-> IF IsEmpty(data) /\ sb.selected_tickers # <<>>
                      THEN said \o <<"warning_no_data">>
                      ELSE IF ~IsEmpty(data) THEN said \o <<"markdown_viewing">>
                      ELSE said,
         grid |-> grid,
         fetch_calls |-> 1,
         provider_calls |-> IF fetched.queried THEN 1 ELSE 0,
         fetch_raised |-> fetched.raised,
         data |-> data,
         crashed |-> Crashed(grid)]

\* the empty-selection branch left out
NoSelection_Skipped(sb) == FALSE

\* start_date > end_date in place of >=
InvalidDateRange_Strict(sb) == sb.start_date > sb.end_date

\* not selected_tickers
NoSelection(sb) == sb.selected_tickers = <<>>

\* start_date >= end_date
InvalidDateRange(sb) == sb.start_date >= sb.end_date

Said(t, message) ==
    [NotRun EXCEPT !.ran = TRUE, !.at = t, !.messages = <<message>>]

MainContent(sb, c, t, outcome) ==
    IF NoSelection(sb)
    THEN [out |-> Said(t, "info_select_asset"), cache |-> c]
    ELSE IF InvalidDateRange(sb)
    THEN [out |-> Said(t, "error_date_range"), cache |-> c]
    ELSE LET fetched == get_stock_data(c, t, sb.selected_tickers, sb.start_date,
                                       sb.end_date, outcome)
         IN  [out |-> AfterFetch(sb, t, fetched), cache |-> fetched.cache]

\* whether this run gets as far as calling get_stock_data, and the provider
CallsFetch(sb) == ~NoSelection(sb) /\ ~InvalidDateRange(sb)

AsksProvider(sb) ==
    /\ CallsFetch(sb)
    /\ sb.selected_tickers # <<>>
    /\ ~CacheHit(cache, CacheKey(sb.selected_tickers, sb.start_date, sb.end_date), now)

(***************************************************************************)
(* The session.  Every widget change reruns the script from the top.       *)
(* queries is history: the provider's successful answers, each with the    *)
(* arguments of the call and the time it was made.                         *)
(***************************************************************************)
NoCall ==
    [op |-> "none", pc |-> "done", closes |-> <<>>, window |-> 0, num_levels |-> 0,
     show_sma |-> FALSE, sma_period |-> 0, frame |-> "flat",
     levels |-> [status |-> "none", support |-> <<>>, resistance |-> <<>>],
     cell |-> Warning("none")]

Init ==
    /\ sidebar = DefaultSidebar
    /\ cache = <<>>
    /\ now = 0
    /\ queries = {}
    /\ out = NotRun
    /\ call = NoCall

RunWith(sb, outcome) ==
    LET r == MainContent(sb, cache, now, outcome)
        key == CacheKey(sb.selected_tickers, sb.start_date, sb.end_date)
        returned == r.out.fetch_calls = 1 /\ ~r.out.fetch_raised
    IN  /\ sidebar' = sb
        /\ cache' = r.cache
        /\ out' = r.out
        /\ queries' = IF returned /\ r.out.provider_calls = 1
                      THEN queries \cup {[key |-> key, at |-> now, data |-> r.out.data]}
                      ELSE queries
        /\ UNCHANGED <<now, call>>

Rerun(sb) ==
    IF AsksProvider(sb)
    THEN /\ Cardinality(queries) < MaxQueries
         /\ \E outcome \in ProviderOutcomes(sb.selected_tickers) : RunWith(sb, outcome)
    ELSE RunWith(sb, NoOutcome)

Reload == Rerun(sidebar)

SelectTicker ==
    \E p \in 1..Len(DEFAULT_TICKERS) :
        /\ DEFAULT_TICKERS[p] \notin Range(sidebar.selected_tickers)
        /\ Len(sidebar.selected_tickers) < MAX_SELECTIONS
        /\ Rerun([sidebar EXCEPT !.selected_tickers = Append(@, DEFAULT_TICKERS[p])])

DeselectTicker ==
    \E p \in 1..Len(sidebar.selected_tickers) :
        Rerun([sidebar EXCEPT !.selected_tickers =
                  SubSeq(@, 1, p - 1) \o SubSeq(@, p + 1, Len(@))])

SetStartDate ==
    \E d \in Dates \ {sidebar.start_date} : Rerun([sidebar EXCEPT !.start_date = d])

SetEndDate ==
    \E d \in Dates \ {sidebar.end_date} : Rerun([sidebar EXCEPT !.end_date = d])

ToggleSma == Rerun([sidebar EXCEPT !.show_sma = ~@])

SetSmaPeriod ==
    /\ sidebar.show_sma
    /\ \E n \in SmaPeriods \ {sidebar.sma_period} :
           Rerun([sidebar EXCEPT !.sma_period = n])

ToggleSr ==
    IF sidebar.sr_enabled
    THEN Rerun([sidebar EXCEPT !.sr_enabled = FALSE,
                               !.sr_window = DEFAULT_SR_WINDOW,
                               !.sr_num_levels = 0])
    ELSE Rerun([sidebar EXCEPT !.sr_enabled = TRUE,
                               !.sr_window = DEFAULT_SR_WINDOW,
                               !.sr_num_levels = DEFAULT_SR_NUM_LEVELS])

SetSrWindow ==
    /\ sidebar.sr_enabled
    /\ \E w \in SrWindows \ {sidebar.sr_window} :
           Rerun([sidebar EXCEPT !.sr_window = w])

SetSrNumLevels ==
    /\ sidebar.sr_enabled
    /\ \E n \in SrNumLevels \ {sidebar.sr_num_levels} :
           Rerun([sidebar EXCEPT !.sr_num_levels = n])

TickSeconds == TTL \div 2

Tick ==
    /\ now + TickSeconds <= MaxTicks * TickSeconds
    /\ now' = now + TickSeconds
    /\ UNCHANGED <<sidebar, cache, queries, out, call>>

(***************************************************************************)
(* Spec: a session in which the user changes the selection and the dates,  *)
(* reloads the page and lets time pass, the display settings staying at    *)
(* their defaults.                                                         *)
(***************************************************************************)
Next ==
    \/ Reload
    \/ SelectTicker
    \/ DeselectTicker
    \/ SetStartDate
    \/ SetEndDate
    \/ Tick

Spec == Init /\ [][Next]_vars

(***************************************************************************)
(* SpecView: the page is opened on some selection and date range, and the  *)
(* user changes the display settings (SMA, support and resistance).        *)
(***************************************************************************)
Selections ==
    {s \in SeqsUpTo(Range(DEFAULT_TICKERS), Len(DEFAULT_TICKERS)) :
        \A i, j \in 1..Len(s) : i # j => s[i] # s[j]}

InitView ==
    /\ sidebar \in {[DefaultSidebar EXCEPT !.selected_tickers = s,
                                           !.start_date = a,
                                           !.end_date = b] :
                       s \in Selections, a \in Dates, b \in Dates}
    /\ cache = <<>>
    /\ now = 0
    /\ queries = {}
    /\ out = NotRun
    /\ call = NoCall

NextView ==
    \/ Reload
    \/ ToggleSma
    \/ SetSmaPeriod
    \/ ToggleSr
    \/ SetSrWindow
    \/ SetSrNumLevels

SpecView == InitView /\ [][NextView]_vars

(***************************************************************************)
(* SpecFn: find_support_resistance and plot_candlestick called directly,   *)
(* on every close series and parameter within the bounds.                  *)
(***************************************************************************)
ScenarioA == <<1, 5, 2, 6, 1, 7, 1>>

SeriesInputs == SeqsUpTo(1..MaxPrice, MaxLen) \cup {ScenarioA}

ShortSeriesInputs == SeqsUpTo(1..MaxPrice, MaxPeriod)

FrameKinds == {"flat", "multi", "multi_no_open"}

\* a frame whose OHLCV columns all hold the given closes, for ticker AAPL
FrameOf(kind, closes) ==
    IF kind = "flat"
    THEN [multi |-> FALSE, col |-> [f \in Fields |-> closes]]
    ELSE [multi |-> TRUE,
          col |-> [k \in (Fields \ (IF kind = "multi" THEN {} ELSE {"Open"}))
                            \X {"AAPL"} |-> closes]]

InitFn ==
    /\ sidebar = DefaultSidebar
    /\ cache = <<>>
    /\ now = 0
    /\ queries = {}
    /\ out = NotRun
    /\ call \in
         {[NoCall EXCEPT !.op = "find_support_resistance", !.pc = "ready",
                         !.closes = c, !.window = w, !.num_levels = n] :
             c \in SeriesInputs, w \in 1..MaxWindow, n \in 0..MaxLevels}
         \cup
         {[NoCall EXCEPT !.op = "find_support_resistance", !.pc = "ready",
                         !.closes = ScenarioA, !.window = 1, !.num_levels = 3]}
         \cup
         {[NoCall EXCEPT !.op = "plot_candlestick", !.pc = "ready",
                         !.closes = c, !.window = 1, !.num_levels = MaxLevels,
                         !.show_sma = TRUE, !.sma_period = q, !.frame = k] :
             c \in SeriesInputs, q \in 1..MaxPeriod, k \in {"multi"}}
         \cup
         {[NoCall EXCEPT !.op = "plot_candlestick", !.pc = "ready",
                         !.closes = c, !.window = w, !.num_levels = MaxLevels,
                         !.show_sma = b, !.sma_period = MaxPeriod, !.frame = k] :
             c \in ShortSeriesInputs, w \in 0..1, b \in BOOLEAN, k \in FrameKinds}

CallFindSupportResistance ==
    /\ call.op = "find_support_resistance"
    /\ call.pc = "ready"
    /\ call' = [call EXCEPT
                  !.pc = "done",
                  !.levels = find_support_resistance(FrameOf("flat", call.closes),
                                                     call.window, call.num_levels)]
    /\ UNCHANGED <<sidebar, cache, now, queries, out>>

CallPlotCandlestick ==
    /\ call.op = "plot_candlestick"
    /\ call.pc = "ready"
    /\ call' = [call EXCEPT
                  !.pc = "done",
                  !.cell = plot_candlestick(FrameOf(call.frame, call.closes), "AAPL",
                                            call.window, call.num_levels,
                                            call.show_sma, call.sma_period)]
    /\ UNCHANGED <<sidebar, cache, now, queries, out>>

NextFn ==
    \/ CallFindSupportResistance
    \/ CallPlotCandlestick

SpecFn == InitFn /\ [][NextFn]_vars

(***************************************************************************)
(* Properties.                                                             *)
(***************************************************************************)
RunKey(sb) == CacheKey(sb.selected_tickers, sb.start_date, sb.end_date)

NothingFetched == out.fetch_calls = 0 /\ out.provider_calls = 0

GridRendered == out.ran /\ out.fetch_calls = 1 /\ ~IsEmpty(out.data)

HasOHLC(df, ticker) == \A f \in OHLC : <<f, ticker>> \in DOMAIN df.col

CellWarnings == {"warning_missing_ohlc", "warning_not_available"}

\* C1, as amended: a run with start_date >= end_date calls neither
\* get_stock_data nor the provider and renders no grid; it shows the
\* date-range error when at least one ticker is selected, and the
\* select-an-asset notice instead when none is.
C1_InvalidDateRangeBlocksFetch ==
    (out.ran /\ sidebar.start_date >= sidebar.end_date) =>
        /\ NothingFetched
        /\ out.grid = <<>>
        /\ sidebar.selected_tickers # <<>> => out.messages = <<"error_date_range">>
        /\ sidebar.selected_tickers = <<>> => out.messages = <<"info_select_asset">>

C1_Witness ==
    /\ out.ran
    /\ sidebar.start_date >= sidebar.end_date
    /\ sidebar.selected_tickers # <<>>
    /\ out.messages = <<"error_date_range">>
    /\ cache # <<>>

\* C1 as stated: whatever the selection, empty included, a run with
\* start_date >= end_date shows the date-range error, fetches nothing and
\* renders no grid.
C1_Original ==
    (out.ran /\ sidebar.start_date >= sidebar.end_date) =>
        /\ out.messages = <<"error_date_range">>
        /\ NothingFetched
        /\ out.grid = <<>>

\* C2: when the grid is rendered for a non-empty dataset, every selected
\* ticker has exactly one cell, in selection order, the ticker at index i in
\* column i mod CHART_COLUMNS; a ticker without its OHLC columns shows a
\* warning in its cell and every other ticker shows its chart.
C2_EveryTickerOneCell ==
    GridRendered =>
        /\ Len(out.grid) = Len(sidebar.selected_tickers)
        /\ \A p \in 1..Len(out.grid) :
              /\ out.grid[p].ticker = sidebar.selected_tickers[p]
              /\ out.grid[p].column = (p - 1) % CHART_COLUMNS
              /\ IF HasOHLC(out.data, out.grid[p].ticker)
                 THEN out.grid[p].content.kind = "chart"
                 ELSE out.grid[p].content.kind \in CellWarnings

\* C3, as amended: for window >= 1 and max_levels >= 0, a close series of
\* fewer than 3 points (the empty one included) gives no support and no
\* resistance level.
C3_ShortSeriesNoLevels ==
    (call.op = "find_support_resistance" /\ call.pc = "done"
        /\ Len(call.closes) < 3) =>
        /\ call.levels.status = "ok"
        /\ call.levels.support = <<>>
        /\ call.levels.resistance = <<>>

C3_Witness ==
    /\ call.op = "find_support_resistance"
    /\ call.pc = "done"
    /\ Len(call.closes) = 2
    /\ call.closes[1] # call.closes[2]
    /\ call.window = MaxWindow
    /\ call.num_levels > 0
    /\ call.levels.resistance = <<>>

\* C3 as stated: for window >= 1, a close series of fewer than 2*window+1
\* points gives no support and no resistance level.
C3_Original ==
    (call.op = "find_support_resistance" /\ call.pc = "done"
        /\ Len(call.closes) < 2 * call.window + 1) =>
        /\ call.levels.support = <<>>
        /\ call.levels.resistance = <<>>

\* C4: with the S/R toggle off, the call the grid makes to plot_candlestick
\* for each selected ticker that has data completes and shows the chart with
\* no support and no resistance line.
C4_DisabledLevelsStillChart ==
    (GridRendered /\ ~sidebar.sr_enabled) =>
        \A p \in 1..Len(sidebar.selected_tickers) :
            HasOHLC(out.data, sidebar.selected_tickers[p]) =>
                /\ p <= Len(out.grid)
                /\ out.grid[p].content.kind = "chart"
                /\ out.grid[p].content.support = <<>>
                /\ out.grid[p].content.resistance = <<>>

StrictlyDescending(s) == \A i \in 1..Len(s) - 1 : s[i] > s[i + 1]

StrictlyAscending(s) == \A i \in 1..Len(s) - 1 : s[i] < s[i + 1]

\* C5: the resistance list is strictly descending, the support list strictly
\* ascending (so neither repeats a value), and each has at most max_levels
\* elements.
C5_LevelsOrderedAndBounded ==
    (call.op = "find_support_resistance" /\ call.pc = "done") =>
        /\ StrictlyDescending(call.levels.resistance)
        /\ StrictlyAscending(call.levels.support)
        /\ Len(call.levels.resistance) <= call.num_levels
        /\ Len(call.levels.support) <= call.num_levels

C5_Witness ==
    /\ call.op = "find_support_resistance"
    /\ call.pc = "done"
    /\ call.closes = <<1, 3, 1, 3, 2>>
    /\ call.window = 1
    /\ call.num_levels = 2
    /\ call.levels.resistance = <<3>>
    /\ call.levels.support = <<1>>

\* C6: a run with no ticker selected, whatever the dates, calls neither
\* get_stock_data nor the provider, shows the select-an-asset notice and
\* renders no grid.
C6_EmptySelectionNoFetch ==
    (out.ran /\ sidebar.selected_tickers = <<>>) =>
        /\ NothingFetched
        /\ out.messages = <<"info_select_asset">>
        /\ out.grid = <<>>
        /\ IsEmpty(out.data)

C6_Witness ==
    /\ out.ran
    /\ sidebar.selected_tickers = <<>>
    /\ sidebar.start_date < sidebar.end_date
    /\ out.messages = <<"info_select_asset">>
    /\ cache # <<>>

\* C7: when the provider call fails, the run calls the provider once, renders
\* no grid cell and shows exactly one message, the fetch error, without the
\* empty-dataset warning.
C7_FetchErrorIsTheOnlyMessage ==
    (out.ran /\ out.fetch_raised) =>
        /\ out.provider_calls = 1
        /\ out.grid = <<>>
        /\ out.messages = <<"error_fetch">>

\* C8, as amended: a get_stock_data call made less than TTL after a provider
\* query for the same ticker list in the same order, start and end does not
\* query the provider and returns that query's dataset; a call with no such
\* query queries the provider.
C8_MemoByArguments ==
    [][(now' = now /\ out'.ran /\ out'.fetch_calls = 1) =>
          LET recent == {q \in queries :
                            q.key = RunKey(sidebar') /\ now - q.at < TTL}
          IN  IF recent # {}
              THEN /\ ~out'.fetch_raised
                   /\ out'.provider_calls = 0
                   /\ \A q \in recent : out'.data = q.data
              ELSE out'.provider_calls = 1]_vars

C8_Witness ==
    /\ out.ran
    /\ out.fetch_calls = 1
    /\ out.provider_calls = 0
    /\ \E q \in queries :
          /\ q.key = RunKey(sidebar)
          /\ q.at < out.at
          /\ out.at - q.at < TTL
          /\ out.data = q.data
    /\ \E q \in queries : q.key # RunKey(sidebar) /\ q.data # out.data

SameTickerSet(k1, k2) ==
    Range(k1[1]) = Range(k2[1]) /\ k1[2] = k2[2] /\ k1[3] = k2[3]

\* C8 as stated: a successful get_stock_data call made less than TTL after a
\* successful one that queried the provider for the same set of tickers, in
\* whatever order, start and end does not query the provider again and
\* returns the same dataset.
C8_Original ==
    [][(now' = now /\ out'.ran /\ out'.fetch_calls = 1 /\ ~out'.fetch_raised) =>
          LET recent == {q \in queries :
                            SameTickerSet(q.key, RunKey(sidebar')) /\ now - q.at < TTL}
          IN  recent # {} =>
                  /\ out'.provider_calls = 0
                  /\ \A q \in recent : out'.data = q.data]_vars

RECURSIVE SumRange(_, _, _)
SumRange(s, lo, hi) == IF lo > hi THEN 0 ELSE s[lo] + SumRange(s, lo + 1, hi)

\* C9: with SMA requested, period p and n closes, the chart is rendered with
\* its n candles and the overlay is undefined at the first p-1 positions and,
\* from position p on, is the sum of the last p closes over p; none is
\* defined when n < p.
C9_TrailingAverage ==
    (call.op = "plot_candlestick" /\ call.pc = "done" /\ call.show_sma
        /\ call.frame # "multi_no_open" /\ call.window >= 1) =>
        /\ call.cell.kind = "chart"
        /\ call.cell.candles = Len(call.closes)
        /\ DOMAIN call.cell.sma = 1..Len(call.closes)
        /\ \A i \in 1..Len(call.closes) :
              IF i < call.sma_period
              THEN call.cell.sma[i] = <<>>
              ELSE call.cell.sma[i] =
                      <<SumRange(call.closes, i - call.sma_period + 1, i),
                        call.sma_period>>

C9_Witness ==
    /\ call.op = "plot_candlestick"
    /\ call.pc = "done"
    /\ call.show_sma
    /\ call.cell.kind = "chart"
    /\ call.sma_period >= 2
    /\ Len(call.closes) > call.sma_period
    /\ call.closes[1] # call.closes[Len(call.closes)]
    /\ call.cell.sma[1] = <<>>
    /\ call.cell.sma[Len(call.closes)] # <<>>

Abs(x) == IF x < 0 THEN 0 - x ELSE x

\* the positions that are neither end of the series and whose close compares
\* strictly with every other close of the series at most window away
InnerExtrema(closes, window, above) ==
    {i \in 2..Len(closes) - 1 :
        \A j \in 1..Len(closes) :
            (j # i /\ Abs(i - j) <= window) =>
                IF above THEN closes[i] > closes[j] ELSE closes[i] < closes[j]}

\* the positions with window points on both sides whose close compares
\* strictly with every other close at most window away
FullWindowExtrema(closes, window, above) ==
    {i \in window + 1..Len(closes) - window :
        \A j \in i - window..i + window :
            j # i => IF above THEN closes[i] > closes[j] ELSE closes[i] < closes[j]}

\* levels holds the first max_levels of the distinct values, best first
FirstOf(levels, values, max_levels, above) ==
    /\ Len(levels) = Min(max_levels, Cardinality(values))
    /\ Range(levels) \subseteq values
    /\ IF above THEN StrictlyDescending(levels) ELSE StrictlyAscending(levels)
    /\ \A v \in values \ Range(levels) :
          \A k \in 1..Len(levels) : IF above THEN v < levels[k] ELSE v > levels[k]

\* C10, as amended: resistance is the first max_levels of the descending
\* distinct closes at the positions, other than the two ends of the series,
\* whose close is strictly greater than every other close of the series at
\* most window positions away; support likewise with strictly less and
\* ascending.  Closes [1,5,2,6,1,7,1], window 1, max_levels 3 give
\* resistance [7,6,5] and support [1,2].
C10_LevelsAreInnerExtrema ==
    (call.op = "find_support_resistance" /\ call.pc = "done") =>
        /\ FirstOf(call.levels.resistance,
                   {call.closes[i] : i \in InnerExtrema(call.closes, call.window, TRUE)},
                   call.num_levels, TRUE)
        /\ FirstOf(call.levels.support,
                   {call.closes[i] : i \in InnerExtrema(call.closes, call.window, FALSE)},
                   call.num_levels, FALSE)
        /\ (call.closes = ScenarioA /\ call.window = 1 /\ call.num_levels = 3) =>
              /\ call.levels.resistance = <<7, 6, 5>>
              /\ call.levels.support = <<1, 2>>

C10_Witness ==
    /\ call.op = "find_support_resistance"
    /\ call.pc = "done"
    /\ call.closes = ScenarioA
    /\ call.window = 1
    /\ call.num_levels = 3
    /\ call.levels.resistance = <<7, 6, 5>>
    /\ call.levels.support = <<1, 2>>

\* C10 as stated: resistance is the first max_levels of the descending
\* distinct closes at exactly the positions that have window points on both
\* sides and whose close is strictly greater than every other close within
\* window positions; support likewise.
C10_Original ==
    (call.op = "find_support_resistance" /\ call.pc = "done") =>
        /\ FirstOf(call.levels.resistance,
                   {call.closes[i] :
                       i \in FullWindowExtrema(call.closes, call.window, TRUE)},
                   call.num_levels, TRUE)
        /\ FirstOf(call.levels.support,
                   {call.closes[i] :
                       i \in FullWindowExtrema(call.closes, call.window, FALSE)},
                   call.num_levels, FALSE)

====
